---- MODULE Spec2Model ----
(***************************************************************************)
(* Invokable.create (src/src/index.ts) over a small ECMAScript object      *)
(* model: objects with a prototype link and own property descriptors,      *)
(* [[Get]], [[Set]], [[HasProperty]], [[DefineOwnProperty]] and            *)
(* [[SetPrototypeOf]] as the calls of create use them.                     *)
(***************************************************************************)
EXTENDS Integers, Sequences, FiniteSets, TLC

VARIABLES
  heap,           \* the objects that can change: prototype and own properties
  ext,            \* the variable that the accessors getV and setV close over
  pc,             \* "start", then "made" or "thrown" once create has run
  target0,        \* the target as it was handed to create
  createGetters,  \* the getters that ran during create
  op,             \* the last operation: "none", "create", "invoke", "assign",
                  \* "method", "delete"
  lastArgs,       \* the argument list of the last invocation
  lastCall,       \* what the last invocation did
  lastAssign,     \* what the last assignment or delete did
  lastMethod,     \* the object and the name of the last method call
  steps           \* the number of operations since create

vars == <<heap, ext, pc, target0, createGetters, op, lastArgs, lastCall,
          lastAssign, lastMethod, steps>>

(*************************** bounds ****************************************)
\* largest number of own properties of a target
MaxOwn == 2
\* largest number of operations (invocations, assignments) after create
MaxOps == 2

(*************************** values ****************************************)
Undefined == "undefined"
Null == "null"

\* Invokable.call, the call tag
call == "__call__"

Names == {call, "name", "v", "prototype", "length", "constructor"}

DataDesc(v, w, e, c) ==
  [kind |-> "data", value |-> v, get |-> Undefined, set |-> Undefined,
   writable |-> w, enumerable |-> e, configurable |-> c]

AccDesc(g, s, e, c) ==
  [kind |-> "accessor", value |-> Undefined, get |-> g, set |-> s,
   writable |-> FALSE, enumerable |-> e, configurable |-> c]

\* a property created by an object literal, a class field or an assignment
Plain(v) == DataDesc(v, TRUE, TRUE, TRUE)

\* a method of a class body: writable, configurable, not enumerable
Method(v) == DataDesc(v, TRUE, FALSE, TRUE)

\* the own `name` of a function object
FnNameDesc(n) == DataDesc(n, FALSE, FALSE, TRUE)

NoProps == [n \in {} |-> Undefined]

(*************************** the functions of the programs *****************)
\* the call-tag functions, getters and setters that targets are built from
CallFns == {"fnOld", "fnNew", "fnThisV", "fnFirst"}
Getters == {"getCall", "getName", "getV", "getCtor"}
Setters == {"setV"}
Classes == {"C", "E", "D", "G", "K", "ObjectCtor", "FunctionCtor"}

FnObj(n) == [proto |-> "FunProto", props |-> ("name" :> FnNameDesc(n))]

ClassObj(n, p) ==
  [proto |-> "FunProto",
   props |-> ("name" :> FnNameDesc(n)) @@
             ("prototype" :> DataDesc(p, FALSE, FALSE, FALSE))]

\* objects that no operation of the model writes to; K is the class whose
\* prototype object is the target itself, for create(K.prototype)
StaticHeap ==
  [f \in CallFns \cup Getters \cup Setters |-> FnObj(f)] @@
  ("C" :> ClassObj("C", "CP")) @@
  ("E" :> ClassObj("E", "EP")) @@
  ("D" :> ClassObj("D", "DP")) @@
  ("G" :> ClassObj("G", "GP")) @@
  ("K" :> ClassObj("K", "T")) @@
  ("ObjectCtor" :> ClassObj("Object", "ObjProto")) @@
  ("FunctionCtor" :> ClassObj("Function", "FunProto")) @@
  ("ObjProto" :> [proto |-> Null,
                  props |-> ("constructor" :> Method("ObjectCtor"))]) @@
  ("FunProto" :> [proto |-> "ObjProto",
                  props |-> ("constructor" :> Method("FunctionCtor")) @@
                            ("name" :> FnNameDesc("")) @@
                            ("length" :> DataDesc("0", FALSE, FALSE, TRUE))])

\* the prototypes a target can have, besides Object.prototype and null:
\* CP of class C (declares the call method), EP of class E (does not),
\* DP of class D, GP of class G (declares a getter name and methods length
\* and prototype), P a plain object used as a prototype, NP an object
\* without a prototype
ProtoHeap ==
  ("CP" :> [proto |-> "ObjProto",
            props |-> ("constructor" :> Method("C")) @@
                      (call :> Method("fnThisV")) @@
                      ("foo" :> Method("fnNew"))]) @@
  ("EP" :> [proto |-> "ObjProto",
            props |-> ("constructor" :> Method("E"))]) @@
  ("DP" :> [proto |-> "ObjProto",
            props |-> ("constructor" :> Method("D"))]) @@
  ("GP" :> [proto |-> "ObjProto",
            props |-> ("constructor" :> Method("G")) @@
                      (call :> Method("fnOld")) @@
                      ("name" :> AccDesc("getName", Undefined, FALSE, TRUE)) @@
                      ("length" :> Method("fnFirst")) @@
                      ("prototype" :> Method("fnNew"))]) @@
  ("P" :> [proto |-> "ObjProto", props |-> (call :> Plain("fnFirst"))]) @@
  ("NP" :> [proto |-> Null, props |-> NoProps])

Obj(h, o) == IF o \in DOMAIN h THEN h[o] ELSE StaticHeap[o]

IsObject(h, v) == v \in DOMAIN h \cup DOMAIN StaticHeap

IsCallable(v) == v \in CallFns \cup Getters \cup Setters \cup Classes \cup {"F"}

(*************************** object operations *****************************)
\* the property p as found from o along the prototype chain
RECURSIVE Lookup(_, _, _)
Lookup(h, o, p) ==
  IF p \in DOMAIN Obj(h, o).props
  THEN [found |-> TRUE, holder |-> o, desc |-> Obj(h, o).props[p]]
  ELSE IF Obj(h, o).proto = Null
       THEN [found |-> FALSE, holder |-> Null, desc |-> Plain(Undefined)]
       ELSE Lookup(h, Obj(h, o).proto, p)

\* p in o
HasProperty(h, o, p) == Lookup(h, o, p).found

\* Object.prototype.hasOwnProperty.call(o, p)
HasOwnProperty(h, o, p) == p \in DOMAIN Obj(h, o).props

\* what a getter returns
CallGetter(g, e) ==
  CASE g = "getCall" -> "fnOld"
    [] g = "getName" -> "gname"
    [] g = "getCtor" -> "C"
    [] OTHER -> e

\* o[p]
Get(h, e, o, p) ==
  LET r == Lookup(h, o, p) IN
  IF ~r.found THEN Undefined
  ELSE IF r.desc.kind = "data" THEN r.desc.value
  ELSE IF r.desc.get = Undefined THEN Undefined
  ELSE CallGetter(r.desc.get, e)

\* the getters that o[p] runs
GettersRun(h, o, p) ==
  LET r == Lookup(h, o, p) IN
  IF r.found /\ r.desc.kind = "accessor" /\ r.desc.get # Undefined
  THEN {r.desc.get} ELSE {}

\* v[p] throws a TypeError
Nullish(v) == v \in {Undefined, Null}

\* v[p] of a value that is not null or undefined; a primitive has no
\* `name` and no `prototype`
GetV(h, e, v, p) == IF IsObject(h, v) THEN Get(h, e, v, p) ELSE Undefined

\* ValidateAndApplyPropertyDescriptor for a complete descriptor d
\* cur is the set holding the current descriptor, empty when absent
DefineAllowed(cur, d) ==
  \A c \in cur :
    \/ c.configurable
    \/ /\ ~d.configurable
       /\ d.enumerable = c.enumerable
       /\ d.kind = c.kind
       /\ IF c.kind = "accessor"
          THEN d.get = c.get /\ d.set = c.set
          ELSE c.writable \/ (~d.writable /\ d.value = c.value)

CurDesc(props, p) == IF p \in DOMAIN props THEN {props[p]} ELSE {}

\* Object.defineProperties(o, descs): the properties of o afterwards
DefinedProps(props, descs) ==
  [p \in DOMAIN props \cup DOMAIN descs |->
     IF p \in DOMAIN descs THEN descs[p] ELSE props[p]]

\* Object.defineProperties(o, descs) throws a TypeError
DefineRejected(props, descs) ==
  \E p \in DOMAIN descs : ~DefineAllowed(CurDesc(props, p), descs[p])

\* Object.getOwnPropertyDescriptors(o)
GetOwnPropertyDescriptors(h, o) == Obj(h, o).props

\* Replicate as a copy of the enumerable properties only
Replicate_Enumerable(props, descs) ==
  DefinedProps(props,
               [p \in {q \in DOMAIN descs : descs[q].enumerable} |-> descs[p]])

\* Object.defineProperties(f, Object.getOwnPropertyDescriptors(target)):
\* the properties of f afterwards
Replicate(props, descs) == DefinedProps(props, descs)

(*************************** Invokable.create ******************************)
\* the forwarding function f as the function expression creates it
NewFunction ==
  [proto |-> "FunProto",
   props |-> ("length" :> DataDesc("0", FALSE, FALSE, TRUE)) @@
             ("name" :> FnNameDesc("f")) @@
             ("prototype" :> DataDesc("FP", TRUE, FALSE, FALSE))]

NewFunctionPrototype ==
  [proto |-> "ObjProto", props |-> ("constructor" :> Method("F"))]

Thrown(h, g) == [thrown |-> TRUE, heap |-> h, getters |-> g]

Returned(h, g) == [thrown |-> FALSE, heap |-> h, getters |-> g]

WithF(h, f) == h @@ ("F" :> f) @@ ("FP" :> NewFunctionPrototype)

\* the name property that create defines on f
NameDesc(has, v) == DataDesc(v, has, has, TRUE)

\* the branch for a plain object
createPlain(h, e, target) ==
  LET hasName == HasProperty(h, target, "name")
      fn == Get(h, e, target, call)
      g == GettersRun(h, target, call)
      f1 == [NewFunction EXCEPT
               !.props = DefinedProps(@, "name" :> NameDesc(hasName, GetV(h, e, fn, "name")))]
      descs == GetOwnPropertyDescriptors(h, target)
  IN IF Nullish(fn) THEN Thrown(h, g)
     ELSE IF DefineRejected(f1.props, descs) THEN Thrown(h, g)
     ELSE Returned(WithF(h, [f1 EXCEPT !.props = Replicate(@, descs)]), g)

\* the prototype that create gives f
MirroredPrototype(h, e, target, constructor) == GetV(h, e, constructor, "prototype")

\* the branch for an instantiated object
createInstance(h, e, target) ==
  LET constructor == Get(h, e, target, "constructor")
      g == GettersRun(h, target, "constructor")
      hasOwnName == HasOwnProperty(h, target, "name")
      f1 == [NewFunction EXCEPT
               !.props = DefinedProps(@, "name" :> NameDesc(hasOwnName, GetV(h, e, constructor, "name")))]
      descs == GetOwnPropertyDescriptors(h, target)
      pr == MirroredPrototype(h, e, target, constructor)
  IN IF Nullish(constructor) THEN Thrown(h, g)
     ELSE IF DefineRejected(f1.props, descs) THEN Thrown(h, g)
     ELSE IF ~IsObject(h, pr) /\ pr # Null THEN Thrown(h, g)
     ELSE Returned(WithF(h, [f1 EXCEPT !.props = Replicate(@, descs),
                                       !.proto = pr]), g)

\* create without the test for the call tag
create_NoCallCheck(h, e, target) ==
  IF Obj(h, target).proto = "ObjProto" THEN createPlain(h, e, target)
  ELSE createInstance(h, e, target)

\* create with the name property defined on the target as well
create_NameOnTarget(h, e, target) ==
  LET r == IF ~HasProperty(h, target, call) THEN Thrown(h, {})
           ELSE IF Obj(h, target).proto = "ObjProto"
                THEN createPlain(h, e, target)
                ELSE createInstance(h, e, target)
  IN IF r.thrown THEN r
     ELSE [r EXCEPT !.heap[target].props =
                      DefinedProps(@, "name" :> r.heap["F"].props["name"])]

create(h, e, target) ==
  IF ~HasProperty(h, target, call) THEN Thrown(h, {})
  ELSE IF Obj(h, target).proto = "ObjProto" THEN createPlain(h, e, target)
  ELSE createInstance(h, e, target)

(*************************** targets ***************************************)
\* the own properties a target is built with, by name
Choices(n) ==
  CASE n = call ->
         {Plain("fnOld"), Plain("fnThisV"), Plain("5"), Plain(Undefined),
          Plain(Null), AccDesc("getCall", Undefined, TRUE, TRUE)}
    [] n = "name" ->
         {Plain("foo"), DataDesc("foo", FALSE, FALSE, FALSE),
          AccDesc("getName", Undefined, TRUE, TRUE)}
    [] n = "v" ->
         {Plain("oldValue"), AccDesc("getV", "setV", TRUE, TRUE),
          AccDesc("getV", Undefined, TRUE, TRUE),
          AccDesc(Undefined, "setV", TRUE, TRUE)}
    [] n = "prototype" ->
         {Plain("5"), DataDesc("5", TRUE, FALSE, FALSE)}
    [] n = "length" -> {Plain("7")}
    [] n = "constructor" ->
         {Plain("D"), Plain("5"), AccDesc("getCtor", Undefined, TRUE, TRUE),
          Method("K")}

AllChoices == UNION {Choices(n) : n \in Names}

TargetProps ==
  UNION {{f \in [S -> AllChoices] : \A n \in S : f[n] \in Choices(n)} :
           S \in {S \in SUBSET Names : Cardinality(S) <= MaxOwn}}

TargetProtos == {"ObjProto", "CP", "EP", "GP", "P", "NP", Null}

\* the closed-over variable before anything is assigned to it
Ext0 == "oldValue"

NoCall == [status |-> "none", fn |-> Undefined, this |-> Undefined,
           args |-> <<>>, result |-> Undefined, returned |-> Undefined]

NoAssign == [obj |-> Undefined, prop |-> Undefined, value |-> Undefined,
             ok |-> TRUE]

NoMethod == [obj |-> Undefined, prop |-> Undefined]

Init ==
  /\ \E pr \in TargetProtos, ps \in TargetProps :
       /\ heap = ProtoHeap @@ ("T" :> [proto |-> pr, props |-> ps])
       /\ target0 = [proto |-> pr, props |-> ps]
  /\ op = "none"
  /\ lastArgs = <<>>
  /\ ext = Ext0
  /\ pc = "start"
  /\ createGetters = {}
  /\ lastCall = NoCall
  /\ lastAssign = NoAssign
  /\ lastMethod = NoMethod
  /\ steps = 0

(*************************** operations ************************************)
\* Invokable.create(target)
Create ==
  /\ pc = "start"
  /\ LET r == create(heap, ext, "T") IN
       /\ pc' = IF r.thrown THEN "thrown" ELSE "made"
       /\ heap' = r.heap
       /\ createGetters' = r.getters
  /\ op' = "create"
  /\ UNCHANGED <<ext, target0, lastArgs, lastCall, lastAssign, lastMethod,
                 steps>>

(*************************** the masquerade ********************************)
\* what running the function fn does, with its receiver and arguments
Body(h, e, fn, this, args) ==
  CASE fn = "fnOld" -> "oldValue"
    [] fn = "fnNew" -> "newValue"
    [] fn = "fnThisV" -> Get(h, e, this, "v")
    [] fn = "fnFirst" -> IF args = <<>> THEN Undefined ELSE args[1]
    [] OTHER -> Undefined

\* the invocation throws: fn is not a function
Failed(fn) == [status |-> "TypeError", fn |-> fn, this |-> Undefined,
               args |-> <<>>, result |-> Undefined, returned |-> Undefined]

\* fn.apply(this, args) and the value that the caller gets back
Applied(h, e, fn, this, args) ==
  [status |-> "returned", fn |-> fn, this |-> this, args |-> args,
   result |-> Body(h, e, fn, this, args),
   returned |-> Body(h, e, fn, this, args)]

\* invoke with the original target as the receiver
invoke_TargetReceiver(h, e, args) ==
  LET fn == Get(h, e, "F", call) IN
  IF IsCallable(fn) THEN Applied(h, e, fn, "T", args) ELSE Failed(fn)

\* invoke with the call tag resolved on the original target
invoke_TargetCall(h, e, args) ==
  LET fn == Get(h, e, "T", call) IN
  IF IsCallable(fn) THEN Applied(h, e, fn, "F", args) ELSE Failed(fn)

\* f(...args): return f[call].apply(f, arguments)
invoke(h, e, args) ==
  LET fn == Get(h, e, "F", call) IN
  IF IsCallable(fn) THEN Applied(h, e, fn, "F", args) ELSE Failed(fn)

\* o[p] = v, ok when the assignment does not fail
Set(h, e, o, p, v) ==
  LET r == Lookup(h, o, p)
      fail == [ok |-> FALSE, heap |-> h, ext |-> e]
      own == [ok |-> TRUE, ext |-> e,
              heap |-> [h EXCEPT ![o].props = DefinedProps(@, p :> Plain(v))]]
  IN IF ~r.found THEN own
     ELSE IF r.desc.kind = "data"
          THEN IF ~r.desc.writable THEN fail
               ELSE IF r.holder = o
                    THEN [ok |-> TRUE, ext |-> e,
                          heap |-> [h EXCEPT ![o].props[p].value = v]]
                    ELSE own
     ELSE IF r.desc.set = Undefined THEN fail
          ELSE [ok |-> TRUE, heap |-> h, ext |-> v]

ArgLists == {<<>>, <<"a", "b">>}

\* the value the programs assign to a property
AssignValue(p) ==
  CASE p = call -> "fnNew" [] p = "name" -> "x" [] OTHER -> "newValue"

\* the masquerade, the target and the target's prototype
AssignObjs == {"F", "T"} \cup ({heap["T"].proto} \cap DOMAIN heap)

\* f(...args)
Invoke ==
  /\ pc = "made"
  /\ steps < MaxOps
  /\ \E args \in ArgLists :
       /\ lastArgs' = args
       /\ lastCall' = invoke(heap, ext, args)
  /\ op' = "invoke"
  /\ steps' = steps + 1
  /\ UNCHANGED <<heap, ext, pc, target0, createGetters, lastAssign,
                 lastMethod>>

\* o[p] = v
Assign ==
  /\ pc = "made"
  /\ steps < MaxOps
  /\ \E o \in AssignObjs, p \in {call, "name", "v"} :
       LET r == Set(heap, ext, o, p, AssignValue(p)) IN
         /\ heap' = r.heap
         /\ ext' = r.ext
         /\ lastAssign' = [obj |-> o, prop |-> p, value |-> AssignValue(p),
                           ok |-> r.ok]
  /\ op' = "assign"
  /\ steps' = steps + 1
  /\ UNCHANGED <<pc, target0, createGetters, lastArgs, lastCall, lastMethod>>

\* delete o[p], ok when it does not fail
Delete(h, o, p) ==
  IF p \notin DOMAIN h[o].props THEN [ok |-> TRUE, heap |-> h]
  ELSE IF ~h[o].props[p].configurable THEN [ok |-> FALSE, heap |-> h]
  ELSE [ok |-> TRUE,
        heap |-> [h EXCEPT ![o].props =
                    [q \in DOMAIN @ \ {p} |-> @[q]]]]

\* delete o[p] on the masquerade or on the target
DeleteProp ==
  /\ pc = "made"
  /\ steps < MaxOps
  /\ \E o \in {"F", "T"}, p \in {call, "name", "v"} :
       LET r == Delete(heap, o, p) IN
         /\ heap' = r.heap
         /\ lastAssign' = [obj |-> o, prop |-> p, value |-> Undefined,
                           ok |-> r.ok]
  /\ op' = "delete"
  /\ steps' = steps + 1
  /\ UNCHANGED <<ext, pc, target0, createGetters, lastArgs, lastCall,
                 lastMethod>>

\* o[p](...args)
callMethod(h, e, o, p, args) ==
  LET fn == Get(h, e, o, p) IN
  IF IsCallable(fn) THEN Applied(h, e, fn, o, args) ELSE Failed(fn)

\* the methods that the classes declare besides the call method
MethodNames == {"foo", "length"}

\* o[p](...args) on the masquerade or on the target
CallMethod ==
  /\ pc = "made"
  /\ steps < MaxOps
  /\ \E o \in {"F", "T"}, p \in MethodNames, args \in ArgLists :
       /\ lastArgs' = args
       /\ lastMethod' = [obj |-> o, prop |-> p]
       /\ lastCall' = callMethod(heap, ext, o, p, args)
  /\ op' = "method"
  /\ steps' = steps + 1
  /\ UNCHANGED <<heap, ext, pc, target0, createGetters, lastAssign>>

\* create, then invocations and assignments
Next == Create \/ Invoke \/ Assign

Spec == Init /\ [][Next]_vars

\* create, then invocations, assignments, deletes and method calls
NextAll == Next \/ DeleteProp \/ CallMethod

SpecAll == Init /\ [][NextAll]_vars
(*************************** properties ************************************)
\* the heap that create was called on
Heap0 == ProtoHeap @@ ("T" :> target0)

\* o followed by its prototypes, nearest first
RECURSIVE Chain(_, _)
Chain(h, o) ==
  IF Obj(h, o).proto = Null THEN <<o>> ELSE <<o>> \o Chain(h, Obj(h, o).proto)

\* the positions in the chain of o of the objects with an own property p
Holders(h, o, p) ==
  {i \in 1..Len(Chain(h, o)) : p \in DOMAIN Obj(h, Chain(h, o)[i]).props}

\* the descriptor that p resolves to on o, when Holders(h, o, p) # {}
Resolved(h, o, p) ==
  LET i == CHOOSE i \in Holders(h, o, p) : \A j \in Holders(h, o, p) : i <= j
  IN Obj(h, Chain(h, o)[i]).props[p]

\* the value that the call tag resolves to on o
CallOn(h, e, o) ==
  IF Holders(h, o, call) = {} THEN Undefined
  ELSE LET d == Resolved(h, o, call) IN
       IF d.kind = "data" THEN d.value
       ELSE IF d.get = Undefined THEN Undefined ELSE CallGetter(d.get, e)

\* the call tag is reachable from the target
CallTagReachable == Holders(Heap0, "T", call) # {}

\* the target is a conforming object
Conforming == IsCallable(CallOn(Heap0, Ext0, "T"))

\* the own `name` of the function or class v
NameOf(v) == IF v \in DOMAIN StaticHeap THEN StaticHeap[v].props["name"].value
             ELSE Undefined

\* the classes whose instances have the prototype pr
ClassesOf(pr) ==
  {c \in Classes : StaticHeap[c].props["prototype"].value = pr}

JustMade == pc = "made" /\ op = "create"

\* C1: a target from which the call tag is not reachable, neither as an own
\* property nor along the prototype chain, makes create throw the TypeError
\* and no masquerade is made
C1_MissingCallTagThrows ==
  (pc # "start" /\ ~CallTagReachable) => (pc = "thrown" /\ "F" \notin DOMAIN heap)

\* a class instance without the call tag was rejected
C1_Witness ==
  pc = "thrown" /\ ~CallTagReachable /\ target0.proto = "EP"
  /\ target0.props # NoProps

\* C2: create returns for every conforming target; the missing call tag is
\* the only failure
C2_ConformingNeverThrows == (pc # "start" /\ Conforming) => pc = "made"

\* C3: a call tag that is present and holds a value that is not callable
\* makes create throw
C3_NonCallableThrows ==
  (pc # "start" /\ CallTagReachable /\ ~Conforming) => pc = "thrown"

\* C4: an invocation that finds a function at the call tag runs it with the
\* masquerade as the receiver, never the target, with the caller's arguments
\* in their order, and the caller gets the function's result
C4_ForwardsReceiverArgsResult ==
  (op = "invoke" /\ lastCall.status = "returned") =>
    /\ lastCall.this = "F"
    /\ lastCall.this # "T"
    /\ lastCall.args = lastArgs
    /\ lastCall.returned = lastCall.result
    /\ lastCall.result = Body(heap, ext, lastCall.fn, "F", lastArgs)

\* a function reading this.v saw the masquerade's v, not the target's
C4_Witness ==
  /\ op = "invoke" /\ lastCall.status = "returned"
  /\ lastCall.fn = "fnThisV" /\ lastArgs = <<"a", "b">>
  /\ lastCall.returned = "newValue"
  /\ Get(heap, ext, "T", "v") = "oldValue"

\* C5: every invocation runs what the call tag resolves to on the masquerade
\* at that moment, own property first and then the prototype chain
C5_ReResolvesCallTag ==
  op = "invoke" =>
    IF IsCallable(CallOn(heap, ext, "F"))
    THEN lastCall.status = "returned" /\ lastCall.fn = CallOn(heap, ext, "F")
    ELSE lastCall.status = "TypeError"

\* the call tag was replaced on the shared prototype and the invocation ran
\* the replacement
C5_Witness ==
  /\ op = "invoke" /\ lastCall.status = "returned" /\ lastCall.fn = "fnNew"
  /\ call \notin DOMAIN heap["F"].props
  /\ CallOn(Heap0, Ext0, "T") # "fnNew"

\* C6: the masquerade of a conforming target, invoked right after create,
\* runs the function that the call tag resolves to on the target
C6_InvocableAfterCreate ==
  (op = "invoke" /\ steps = 1 /\ Conforming) =>
    /\ lastCall.status = "returned"
    /\ lastCall.fn = CallOn(Heap0, Ext0, "T")

C8_NoGetterRuns == pc # "start" => createGetters = {}

\* the name that a target without an own name is to give the masquerade
DefaultNames ==
  IF target0.proto = "ObjProto" THEN {NameOf(CallOn(Heap0, Ext0, "T"))}
  ELSE {NameOf(c) : c \in ClassesOf(target0.proto)}

\* C9: without an own name on the target, the masquerade's name is not
\* writable, not enumerable, holds the call-tag function's name (plain
\* target) or the name of the target's class, and an assignment to it fails
\* and changes nothing
C9_DefaultNameReadOnly ==
  "name" \notin DOMAIN target0.props =>
    /\ JustMade =>
         /\ heap["F"].props["name"].kind = "data"
         /\ ~heap["F"].props["name"].writable
         /\ ~heap["F"].props["name"].enumerable
         /\ \A n \in DefaultNames : heap["F"].props["name"].value = n
    /\ (op = "assign" /\ lastAssign.obj = "F" /\ lastAssign.prop = "name") =>
         /\ ~lastAssign.ok
         /\ Get(heap, ext, "F", "name") # lastAssign.value

\* C10: with an own name on the target, the masquerade's name is an
\* enumerable, writable own property holding the target's name, and an
\* assignment to it is read back
C10_OwnNameWritable ==
  "name" \in DOMAIN target0.props =>
    /\ JustMade =>
         /\ heap["F"].props["name"].kind = "data"
         /\ heap["F"].props["name"].writable
         /\ heap["F"].props["name"].enumerable
         /\ heap["F"].props["name"].value = Get(Heap0, Ext0, "T", "name")
    /\ (op = "assign" /\ lastAssign.obj = "F" /\ lastAssign.prop = "name") =>
         /\ lastAssign.ok
         /\ Get(heap, ext, "F", "name") = lastAssign.value

\* C11: the masquerade's name is configurable in every masquerade that
\* create returns, whatever the target's own name is
C11_NameConfigurable ==
  JustMade => heap["F"].props["name"].configurable

\* C12: the masquerade's prototype is the target's prototype, and the default
\* function prototype when the target's prototype is the root object
C12_PrototypeMirrored ==
  JustMade =>
    heap["F"].proto = IF target0.proto = "ObjProto" THEN "FunProto"
                      ELSE target0.proto

\* the names of the properties that the targets and their prototypes have
AllNames == Names \cup MethodNames

\* the target is an instance of a class: its prototype is not the root object
ClassInstance == target0.proto # "ObjProto"

\* the properties that the target inherits
Inherited ==
  {p \in AllNames : p \notin DOMAIN target0.props /\ Holders(Heap0, "T", p) # {}}

\* C13: for a class instance, a property of the prototype chain that is not
\* an own property of the target resolves through the masquerade to the
\* property it resolves to through the target, and a prototype method called
\* on the masquerade right after create returns what it returns on the target
C13_InheritedResolveAlike ==
  ClassInstance =>
    /\ JustMade =>
         \A p \in Inherited :
           /\ Holders(heap, "F", p) # {}
           /\ Resolved(heap, "F", p) = Resolved(Heap0, "T", p)
    /\ (op = "method" /\ steps = 1 /\ lastMethod.obj = "F"
        /\ lastMethod.prop \in Inherited) =>
         /\ lastCall.status = callMethod(Heap0, Ext0, "T", lastMethod.prop, lastArgs).status
         /\ lastCall.returned = callMethod(Heap0, Ext0, "T", lastMethod.prop, lastArgs).returned

\* C14: when create has returned or thrown, the target has the prototype, the
\* own properties and the descriptors it was handed over with, and so have
\* the prototypes
C14_TargetUnmodified ==
  op = "create" =>
    /\ heap["T"].proto = target0.proto
    /\ DOMAIN heap["T"].props = DOMAIN target0.props
    /\ \A p \in DOMAIN target0.props : heap["T"].props[p] = target0.props[p]
    /\ \A o \in DOMAIN ProtoHeap : heap[o] = ProtoHeap[o]

\* create returned a masquerade with a name that the target does not have
C14_Witness ==
  /\ JustMade
  /\ target0.proto = "CP"
  /\ "name" \notin DOMAIN target0.props
  /\ heap["F"].props["name"].value = "C"
  /\ \E p \in DOMAIN target0.props : target0.props[p].kind = "accessor"

\* the step assigns to o[p] or deletes it, and p is no accessor of o
DataWrite(o) ==
  /\ pc = "made"
  /\ op' \in {"assign", "delete"}
  /\ lastAssign'.obj = o
  /\ steps' = steps + 1
  /\ LET r == Lookup(heap, o, lastAssign'.prop)
     IN ~r.found \/ r.desc.kind = "data"

\* C15: adding, writing or deleting an own data property of the target
\* changes neither the own properties of the masquerade nor the function it
\* invokes, and writing an own data property of the masquerade leaves the
\* target as it is
C15_NoSharedOwnState ==
  [][/\ DataWrite("T") =>
          /\ heap'["F"].props = heap["F"].props
          /\ CallOn(heap', ext', "F") = CallOn(heap, ext, "F")
     /\ DataWrite("F") => heap'["T"] = heap["T"]]_vars
====
